---- MODULE Spec2Model ----
(***************************************************************************)
(* Model of backend/main.py: the conversation store (load_conversation,    *)
(* save_conversation, atomic_write_json), the history listing              *)
(* (get_history) and the chat orchestration generator                      *)
(* (chat_endpoint.stream_generator).                                       *)
(*                                                                         *)
(* Text is a sequence of character tokens; a file's content is a sequence  *)
(* of JSON tokens, so a partial write is a proper prefix of a document.    *)
(* A coroutine is cut at its suspension points (await, yield): everything  *)
(* between two suspension points is one action.                            *)
(***************************************************************************)
EXTENDS Integers, Sequences, FiniteSets, TLC

\* ------------------------------------------------------------------ bounds
\* Stream lines the inference server delivers, over all requests of a run.
MaxLines == 2
\* save_conversation calls the writer processes make in a run.
MaxSaves == 3
\* Characters of a short message, and of a message longer than a title.
ShortLen == 3
LongLen == 50

\* ------------------------------------------------------------- environment
Requests == {"r1", "r2"}
Cids == {"c1", "c2"}

\* Processes that save on their own (another worker of the server).
Writers == {"w1", "w2"}

\* The conversation each request may name.
CidsOf(r) == IF r = "r1" THEN {"c1"} ELSE Cids

\* The user text of each request (distinct, so that turns can be told apart).
UserText(r) == IF r = "r1" THEN <<"q1">> ELSE <<"q2">>

\* Increments the inference server may stream.
Chunks == {<< >>, <<"a">>, <<"b">>}

\* The query the model asks to search for, and what the scraper may find.
Query == <<"k">>
ScrapedFound == << <<"Title: t\nURL: u\nSummary: s">> >>

\* ------------------------------------------------------------------ models
\* class Message(BaseModel)
Message(role, content) == [role |-> role, content |-> content]

\* class Conversation(BaseModel)
Conversation(id, updatedAt, messages) ==
    [id |-> id, updatedAt |-> updatedAt, messages |-> messages]

\* class ChatRequest(BaseModel)
ChatRequest(message, conversationId, webSearch, memoryOn) ==
    [message |-> message, conversationId |-> conversationId,
     webSearch |-> webSearch, memoryOn |-> memoryOn]

\* Message.model_dump(): the dict of a message.
model_dump(m) == [role |-> m.role, content |-> m.content]

\* search_tool_def
search_tool_def == [type |-> "function", name |-> "web_search"]

\* --------------------------------------------------------------- JSON text
\* json.dump(conv.model_dump()): the document as the tokens written, in order.
RECURSIVE MsgTokens(_)
MsgTokens(ms) ==
    IF ms = << >> THEN << >>
    ELSE <<[t |-> "msg", role |-> Head(ms).role, content |-> Head(ms).content]>>
         \o MsgTokens(Tail(ms))

json_dump(conv) ==
    <<[t |-> "{"], [t |-> "id", id |-> conv.id],
      [t |-> "updatedAt", ts |-> conv.updatedAt], [t |-> "["]>>
    \o MsgTokens(conv.messages)
    \o <<[t |-> "]"], [t |-> "}"]>>

\* json.loads + Conversation(**...): whether the text is a whole document.
Parses(text) ==
    /\ Len(text) >= 6
    /\ text[1].t = "{"
    /\ text[2].t = "id"
    /\ text[3].t = "updatedAt"
    /\ text[4].t = "["
    /\ \A i \in 5..(Len(text) - 2) : text[i].t = "msg"
    /\ text[Len(text) - 1].t = "]"
    /\ text[Len(text)].t = "}"

Parse(text) ==
    Conversation(text[2].id, text[3].ts,
                 [i \in 1..(Len(text) - 6) |->
                     Message(text[i + 4].role, text[i + 4].content)])

\* ------------------------------------------------------------- file system
\* A path holds no file, or a file with its text.
NoFile == [exists |-> FALSE, text |-> << >>]
File(text) == [exists |-> TRUE, text |-> text]

\* path = CHATS_DIR / f"{cid}.json"
PathOf(cid) == <<"chats", cid>>

\* Faulty variant: the document is written straight into the target.
OpenTarget(x, path) == path

\* tempfile.NamedTemporaryFile("w", dir=path.parent, delete=False): a new file
\* of its own name, next to the target; x is who asks.
NamedTemporaryFile(x, path) == <<"tmp", x>>

Paths ==
    {PathOf(c) : c \in Cids} \cup {<<"tmp", x>> : x \in Requests \cup Writers}

\* What the chats directory may hold when the server starts: nothing, a file
\* cut short (which does not parse), or a conversation saved earlier.
StoredHistory == <<Message("user", <<"h">>), Message("assistant", <<"i">>)>>
TruncatedText(cid) == <<[t |-> "{"], [t |-> "id", id |-> cid]>>
InitialFiles(cid) ==
    IF cid = "c1"
    THEN {NoFile, File(TruncatedText(cid)),
          File(json_dump(Conversation(cid, 0, StoredHistory)))}
    ELSE {NoFile}

\* What a call gives when it raises instead of returning.
Raised == [raised |-> TRUE]

\* Faulty variant: the stored text is parsed outside any try, so a file that
\* does not parse makes the call raise.
load_conversation_unguarded(fs, cid, t) ==
    LET path == PathOf(cid) IN
    IF fs[path].exists
    THEN (IF Parses(fs[path].text) THEN Parse(fs[path].text) ELSE Raised)
    ELSE Conversation(cid, t, << >>)

\* def load_conversation(cid): a file that does not parse raises inside the
\* try, the except clause passes, and the empty conversation is returned.
load_conversation(fs, cid, t) ==
    LET path == PathOf(cid) IN
    IF fs[path].exists /\ Parses(fs[path].text)
    THEN Parse(fs[path].text)
    ELSE Conversation(cid, t, << >>)

\* The steps of atomic_write_json on the file system fs.
\* NamedTemporaryFile(...) creates the temporary file, empty.
CreateTmp(fs, tmp) == [fs EXCEPT ![tmp] = File(<< >>)]

\* json.dump(data, tmp) writes the document piece by piece.
WriteToken(fs, tmp, tok) == [fs EXCEPT ![tmp].text = Append(@, tok)]

\* shutil.move(tmp_path, path): os.rename within one directory, which
\* replaces the target by the temporary file in one step.
Move(fs, tmp, path) ==
    [p \in DOMAIN fs |->
        IF p = path THEN fs[tmp] ELSE IF p = tmp THEN NoFile ELSE fs[p]]

RECURSIVE WriteAll(_, _, _)
WriteAll(fs, tmp, text) ==
    IF text = << >> THEN fs
    ELSE WriteAll(WriteToken(fs, tmp, Head(text)), tmp, Tail(text))

\* Faulty variant: the temporary file is moved before the document, still in
\* the buffer of the open file, has been written out.
atomic_write_json_unflushed(fs, path, data, x) ==
    LET tmp == NamedTemporaryFile(x, path) IN
    Move(CreateTmp(fs, tmp), tmp, path)
\* def atomic_write_json(path, data), run to completion by x.
atomic_write_json(fs, path, data, x) ==
    LET tmp == NamedTemporaryFile(x, path) IN
    Move(WriteAll(CreateTmp(fs, tmp), tmp, json_dump(data)), tmp, path)

\* conv.updatedAt = time.time()
Stamped(conv, t) == [conv EXCEPT !.updatedAt = t]

\* Faulty variant: the save reloads the stored conversation and appends the turn of
\* this request to it.
save_conversation_merge(fs, conv, t, x) ==
    LET cur == load_conversation(fs, conv.id, t)
        n == Len(conv.messages)
    IN atomic_write_json(fs, PathOf(conv.id),
                         Conversation(conv.id, t,
                                      cur.messages
                                      \o SubSeq(conv.messages, n - 1, n)),
                         x)

\* def save_conversation(conv), at time t, run to completion by x.
save_conversation(fs, conv, t, x) ==
    atomic_write_json(fs, PathOf(conv.id), Stamped(conv, t), x)

\* ------------------------------------------------------- inference server
\* Tool-call entries a probe response may carry.
ToolCallEntry(name, arguments) ==
    [function |-> [name |-> name, arguments |-> arguments]]
WebSearchCall == ToolCallEntry("web_search", [query |-> Query])
OtherCall == ToolCallEntry("get_weather", [city |-> <<"x">>])
NoQueryCall == ToolCallEntry("web_search", [q |-> Query])

ToolCallLists ==
    {<< >>, <<WebSearchCall>>, <<OtherCall>>, <<WebSearchCall, OtherCall>>,
     <<OtherCall, WebSearchCall>>, <<NoQueryCall>>}

\* Bodies of the probe response: a direct answer, an answer with tool calls,
\* or a JSON object without "message" (the server's error object).
ProbeBodies ==
    {[message |-> [role |-> "assistant", content |-> <<"a">>]],
     [error |-> <<"model not found">>]}
    \cup {[message |-> [role |-> "assistant", content |-> << >>,
                        tool_calls |-> tcs]] : tcs \in ToolCallLists}

\* Outcomes of client.post + init_resp.json(): an exception (network error,
\* body that is not JSON) or a parsed body.
ProbeOutcomes ==
    {[ok |-> FALSE]} \cup {[ok |-> TRUE, json |-> b] : b \in ProbeBodies}

\* Lines of the streaming response: an empty line, a line json.loads rejects,
\* or a JSON object with or without message.content and with or without done.
StreamLines ==
    {[k |-> "empty"], [k |-> "bad"]}
    \cup {[k |-> "json", hasContent |-> TRUE, content |-> c, done |-> d] :
             c \in Chunks, d \in BOOLEAN}
    \cup {[k |-> "json", hasContent |-> FALSE, content |-> << >>, done |-> d] :
             d \in BOOLEAN}

\* ------------------------------------------------------------------ scope
\* What a run is explored over: one request against every response the
\* servers can give, or two overlapping requests against fewer responses.
PlainBody == [message |-> [role |-> "assistant", content |-> <<"a">>]]
ToolBody ==
    [message |-> [role |-> "assistant", content |-> << >>,
                  tool_calls |-> <<WebSearchCall>>]]
OneRequest ==
    [requests |-> {"r1"},
     flags |-> BOOLEAN \X BOOLEAN,
     probes |-> ProbeOutcomes,
     lines |-> StreamLines,
     scraped |-> {"raise", "empty", "found"}]
TwoRequests ==
    [requests |-> {"r1", "r2"},
     flags |-> {<<TRUE, TRUE>>, <<FALSE, FALSE>>},
     probes |-> {[ok |-> FALSE], [ok |-> TRUE, json |-> PlainBody],
                 [ok |-> TRUE, json |-> ToolBody]},
     lines |-> {[k |-> "json", hasContent |-> TRUE, content |-> <<"a">>,
                 done |-> TRUE]},
     scraped |-> {"raise"}]
Scopes == {OneRequest, TwoRequests}

\* ---------------------------------------------------------------- search
None == [none |-> TRUE]
Some(v) == [none |-> FALSE, val |-> v]

\* "\n\n".join(results)
RECURSIVE Join(_)
Join(results) ==
    IF Len(results) = 1 THEN Head(results)
    ELSE Head(results) \o <<"\n\n">> \o Join(Tail(results))

\* async def perform_search(query): the request raised inside the try, or
\* the page was scraped into a list of results.
SearchEnv(kind) ==
    CASE kind = "raise" -> [raised |-> TRUE, results |-> << >>]
      [] kind = "empty" -> [raised |-> FALSE, results |-> << >>]
      [] kind = "found" -> [raised |-> FALSE, results |-> ScrapedFound]
perform_search(env) ==
    IF env.raised THEN None
    ELSE IF env.results # << >> THEN Some(Join(env.results)) ELSE None

\* ------------------------------------------------------- request variables
VARIABLES
    files,      \* the chats directory: path -> file
    now,        \* time.time()
    rq,         \* request -> the locals of chat_endpoint and stream_generator
    linesLeft,  \* stream lines the server may still deliver
    scope,      \* what the run is explored over (fixed by Init)
    saveSeq,    \* history: the save_conversation calls, in order
    wr,         \* writer process -> where it is in atomic_write_json
    savesLeft,  \* saves the writer processes may still start
    seen,       \* the last read of a path: the conversation id and the file
    docs,       \* history: the documents of the saves started so far
    history     \* the listing GET /api/history returned last

vars ==
    <<files, now, rq, linesLeft, scope, saveSeq, wr, savesLeft, seen, docs,
      history>>
reqVars == <<rq, linesLeft, scope, saveSeq>>
writerVars == <<wr, savesLeft, seen, docs>>

\* A request before it arrives.
IdleRequest ==
    [pc |-> "idle",
     req |-> ChatRequest(<< >>, "c1", FALSE, FALSE),
     conv |-> Conversation("c1", 0, << >>),
     loaded |-> << >>,          \* history: conv.messages as loaded
     savesAtLoad |-> 0,         \* history: Len(saveSeq) when loaded
     fileAtLoad |-> NoFile,     \* history: the stored file when loaded
     context_data |-> << >>,
     tools |-> << >>,
     client |-> "none",
     init_json |-> [error |-> << >>],
     query |-> << >>,
     final_messages |-> << >>,
     full_text |-> << >>,
     data |-> [k |-> "empty"],
     log |-> << >>]             \* history: what the request did, in order

\* Entries of a request's log.
EmitEntry(ev) == [op |-> "emit", ev |-> ev]
StatusEvent(content) == [type |-> "status", content |-> content]
ChunkEvent(content) == [type |-> "chunk", content |-> content]
ErrorEvent(error) == [type |-> "error", error |-> error]

Emit(s, ev) == [s EXCEPT !.log = Append(@, EmitEntry(ev))]

\* Exceptions: cls is the class the except clause tests.
NetworkError == [cls |-> "Exception", msg |-> <<"network error">>]
JSONDecodeError == [cls |-> "Exception", msg |-> <<"invalid json">>]
KeyError == [cls |-> "Exception", msg |-> <<"'query'">>]
CancelledError == [cls |-> "BaseException", msg |-> <<"cancelled">>]

\* Faulty variant: the client is closed as the last statement of the try
\* block, so only the path that reaches the end of the stream closes it.
CloseAtEndOfTry(s) ==
    IF s.log # << >> /\ s.log[Len(s.log)].op = "stream_end"
    THEN [s EXCEPT !.client = "closed", !.pc = "closed",
                   !.log = Append(@, [op |-> "close"])]
    ELSE [s EXCEPT !.pc = "closed"]
\* finally: await client.aclose()
Finally(s) ==
    [s EXCEPT !.client = "closed", !.pc = "closed",
              !.log = Append(@, [op |-> "close"])]

\* Faulty variant: a bare except: catches cancellation as well.
CatchesAll(exc) == TRUE

\* except Exception as e
Catches(exc) == exc.cls = "Exception"

\* Faulty variant: the handler sits inside the read loop: after the error event the
\* loop reads on.
ExceptClauseInLoop(s, exc) ==
    [Emit(s, ErrorEvent(exc.msg)) EXCEPT
        !.pc = IF s.pc = "stream_read" THEN "stream_read" ELSE "error_yielded"]

\* except Exception as e: yield the error event
ExceptClause(s, exc) ==
    [Emit(s, ErrorEvent(exc.msg)) EXCEPT !.pc = "error_yielded"]

\* An exception raised inside the try block of stream_generator.
Raise(s, exc) ==
    LET s1 == [s EXCEPT !.log = Append(@, [op |-> "raise", exc |-> exc])] IN
    IF Catches(exc) THEN ExceptClause(s1, exc) ELSE Finally(s1)

\* Faulty variant: the memory flag is ignored: the whole history is always sent.
BuildContextFull(messages, memoryOn) ==
    [i \in 1..Len(messages) |-> model_dump(messages[i])]

\* context_msgs = conv.messages if req.memoryOn else [conv.messages[-1]]
\* context_data = [m.model_dump() for m in context_msgs]
BuildContext(messages, memoryOn) ==
    LET context_msgs ==
            IF memoryOn THEN messages ELSE <<messages[Len(messages)]>>
    IN [i \in 1..Len(context_msgs) |-> model_dump(context_msgs[i])]

\* tools = [search_tool_def] if req.webSearch else []
BuildTools(webSearch) == IF webSearch THEN <<search_tool_def>> ELSE << >>

\* Faulty variant: the streaming call is sent the tool definitions as well.
OpenStreamWithTools(s) ==
    [s EXCEPT !.pc = "stream_wait",
              !.log = Append(@, [op |-> "stream",
                                 messages |-> s.final_messages,
                                 stream |-> TRUE,
                                 tools |-> s.tools])]
\* async with client.stream("POST", ..., json={model, messages, stream: True})
OpenStream(s) ==
    [s EXCEPT !.pc = "stream_wait",
              !.log = Append(@, [op |-> "stream",
                                 messages |-> s.final_messages,
                                 stream |-> TRUE])]

\* init_json.get("message", {}).get("tool_calls")
ToolCallsOf(init_json) ==
    IF "message" \in DOMAIN init_json
       /\ "tool_calls" \in DOMAIN init_json.message
    THEN init_json.message.tool_calls
    ELSE << >>

\* Faulty variant: the entries are searched for one that names web_search.
SelectWebSearchCall(tool_calls) ==
    IF \E i \in 1..Len(tool_calls) :
          tool_calls[i].function.name = "web_search"
    THEN tool_calls[CHOOSE i \in 1..Len(tool_calls) :
                       tool_calls[i].function.name = "web_search"]
    ELSE tool_calls[1]

\* tool_call = init_json["message"]["tool_calls"][0]
SelectToolCall(tool_calls) == tool_calls[1]

\* Faulty variant: a failed probe is skipped and the answer is streamed anyway.
OnProbeFailureFallback(s) ==
    OpenStream([s EXCEPT !.final_messages = s.context_data])

\* Lines 188-198: client.post or init_resp.json() raises.
OnProbeFailure(s) == Raise(s, NetworkError)

\* Lines 198-207 and 219: from the probe's return to the next suspension.
OnProbeReturn(s, resp) ==
    IF ~resp.ok
    THEN OnProbeFailure([s EXCEPT !.log = Append(@, [op |-> "probe_failed"])])
    ELSE
      LET init_json == resp.json
          s1 == [s EXCEPT !.init_json = init_json,
                          !.final_messages = s.context_data,
                          !.log = Append(@, [op |-> "probe_return",
                                             json |-> init_json])]
          tool_calls == ToolCallsOf(init_json)
      IN IF tool_calls # << >>
         THEN LET tool_call == SelectToolCall(tool_calls) IN
              IF tool_call.function.name = "web_search"
              THEN IF "query" \in DOMAIN tool_call.function.arguments
                   THEN LET query == tool_call.function.arguments.query IN
                        [Emit(s1, StatusEvent(<<"Searching: ">> \o query
                                              \o <<"...">>))
                            EXCEPT !.query = query, !.pc = "status_yielded"]
                   ELSE Raise(s1, KeyError)
              ELSE OpenStream(s1)
         ELSE OpenStream(s1)

\* Faulty variant: the probe's tool-call message is not put into the list.
OnStatusResumeNoCall(s) ==
    [s EXCEPT !.pc = "search_wait",
              !.log = Append(@, [op |-> "search", query |-> s.query])]
\* Lines 209-211: resumed after the status event, up to the search.
OnStatusResume(s) ==
    [s EXCEPT !.final_messages = Append(@, s.init_json.message),
              !.pc = "search_wait",
              !.log = Append(@, [op |-> "search", query |-> s.query])]

\* tool_content = f"Results:\n{search_result}" if search_result else "Search failed."
ToolContent(search_result) ==
    IF ~search_result.none /\ search_result.val # << >>
    THEN <<"Results:\n">> \o search_result.val
    ELSE <<"Search failed.">>

\* Faulty variant: a search without result is treated as an error.
OnSearchReturnStrict(s, search_result) ==
    IF search_result.none
    THEN Raise(s, [cls |-> "Exception", msg |-> <<"search failed">>])
    ELSE OpenStream([s EXCEPT !.final_messages =
                        Append(@, [role |-> "tool",
                                   content |-> ToolContent(search_result)])])

\* Lines 212-219: from the search's return to the streaming call.
OnSearchReturn(s, search_result) ==
    OpenStream([s EXCEPT !.final_messages =
                    Append(@, [role |-> "tool",
                               content |-> ToolContent(search_result)])])

\* Lines 176-182: chat_endpoint up to the creation of the generator.  An
\* exception of line 176 leaves the handler: no generator is created.
chat_endpoint(s, req, fs, t, nsaves) ==
    LET conv0 == load_conversation(fs, req.conversationId, t)
        conv == [conv0 EXCEPT
                    !.messages = Append(@, Message("user", req.message))]
    IN IF conv0 = Raised
       THEN [s EXCEPT !.pc = "raised", !.req = req]
       ELSE
       [s EXCEPT !.pc = "gen_created",
                 !.req = req,
                 !.conv = conv,
                 !.loaded = conv0.messages,
                 !.savesAtLoad = nsaves,
                 !.fileAtLoad = fs[PathOf(req.conversationId)],
                 !.context_data = BuildContext(conv.messages, req.memoryOn),
                 !.tools = BuildTools(req.webSearch)]

\* Lines 185-196: the generator starts, opens its client, posts the probe.
OnGenStart(s) ==
    [s EXCEPT !.client = "open",
              !.pc = "probe_wait",
              !.log = Append(@, [op |-> "probe",
                                 messages |-> s.context_data,
                                 stream |-> FALSE,
                                 tools |-> s.tools])]

\* Lines 237-240: a parsed line that carries message.content.
OnContent(s, data) ==
    [Emit([s EXCEPT !.full_text = @ \o data.content],
          ChunkEvent(data.content))
        EXCEPT !.data = data, !.pc = "chunk_yielded"]

\* Lines 243-245: the done branch appends the assistant turn.
AppendAssistant(s) ==
    [s EXCEPT !.conv.messages = Append(@, Message("assistant", s.full_text)),
              !.log = Append(@, [op |-> "done"])]

\* ------------------------------------------------------------------ actions
\* POST /api/chat arrives.  (r2 is the later arrival.)
ChatEndpoint(r) ==
    /\ rq[r].pc = "idle"
    /\ r \in scope.requests
    /\ r = "r2" => rq["r1"].pc # "idle"
    /\ \E cid \in CidsOf(r), flags \in scope.flags :
         rq' = [rq EXCEPT ![r] =
                   chat_endpoint(@, ChatRequest(UserText(r), cid, flags[1],
                                                flags[2]),
                                 files, now, Len(saveSeq))]
    /\ UNCHANGED <<files, now, linesLeft, scope, saveSeq, writerVars,
                  history>>

\* StreamingResponse starts to iterate the generator.
GenStart(r) ==
    /\ rq[r].pc = "gen_created"
    /\ rq' = [rq EXCEPT ![r] = OnGenStart(@)]
    /\ UNCHANGED <<files, now, linesLeft, scope, saveSeq, writerVars,
                  history>>

\* await client.post(...) returns or raises.
ProbeReturn(r) ==
    /\ rq[r].pc = "probe_wait"
    /\ \E resp \in scope.probes :
         rq' = [rq EXCEPT ![r] = OnProbeReturn(@, resp)]
    /\ UNCHANGED <<files, now, linesLeft, scope, saveSeq, writerVars,
                  history>>

\* The caller takes the status event; the generator resumes.
StatusResume(r) ==
    /\ rq[r].pc = "status_yielded"
    /\ rq' = [rq EXCEPT ![r] = OnStatusResume(@)]
    /\ UNCHANGED <<files, now, linesLeft, scope, saveSeq, writerVars,
                  history>>

\* await perform_search(query) returns.
SearchReturn(r) ==
    /\ rq[r].pc = "search_wait"
    /\ \E kind \in scope.scraped :
         LET search_result == perform_search(SearchEnv(kind)) IN
         rq' = [rq EXCEPT ![r] =
                   OnSearchReturn(
                       [@ EXCEPT !.log = Append(@, [op |-> "search_return",
                                                    result |-> search_result])],
                       search_result)]
    /\ UNCHANGED <<files, now, linesLeft, scope, saveSeq, writerVars,
                  history>>

\* client.stream(...).__aenter__ returns the response or raises.
StreamOpen(r) ==
    /\ rq[r].pc = "stream_wait"
    /\ \E ok \in BOOLEAN :
         rq' = [rq EXCEPT ![r] =
                   IF ok THEN [@ EXCEPT !.pc = "stream_read",
                                        !.full_text = << >>]
                   ELSE Raise(@, NetworkError)]
    /\ UNCHANGED <<files, now, linesLeft, scope, saveSeq, writerVars,
                  history>>

\* Lines 242-246: the done branch, then back to the head of the loop.
DoneBranch(r, s) ==
    LET s1 == AppendAssistant(s)
        conv2 == Stamped(s1.conv, now)
    IN /\ files' = save_conversation(files, s1.conv, now, r)
       /\ now' = now + 1
       /\ saveSeq' = Append(saveSeq, [by |-> r, id |-> conv2.id])
       /\ rq' = [rq EXCEPT ![r] =
                    [s1 EXCEPT !.conv = conv2,
                               !.pc = "stream_read",
                               !.log = Append(@, [op |-> "save",
                                                  conv |-> conv2])]]

\* aiter_lines() delivers a line: lines 232-246 up to the next suspension.
StreamLine(r) ==
    /\ rq[r].pc = "stream_read"
    /\ linesLeft > 0
    /\ linesLeft' = linesLeft - 1
    /\ UNCHANGED <<scope, writerVars, history>>
    /\ \E line \in scope.lines :
         CASE line.k = "empty" ->
                UNCHANGED <<files, now, rq, saveSeq>>
           [] line.k = "bad" ->
                /\ rq' = [rq EXCEPT ![r] = Raise(@, JSONDecodeError)]
                /\ UNCHANGED <<files, now, saveSeq>>
           [] line.k = "json" /\ line.hasContent ->
                /\ rq' = [rq EXCEPT ![r] = OnContent(@, line)]
                /\ UNCHANGED <<files, now, saveSeq>>
           [] line.k = "json" /\ ~line.hasContent /\ line.done ->
                DoneBranch(r, rq[r])
           [] OTHER ->
                UNCHANGED <<files, now, rq, saveSeq>>

\* The caller takes the chunk event; the generator resumes at line 242.
ChunkResume(r) ==
    /\ rq[r].pc = "chunk_yielded"
    /\ IF rq[r].data.done
       THEN DoneBranch(r, rq[r])
       ELSE /\ rq' = [rq EXCEPT ![r] = [@ EXCEPT !.pc = "stream_read"]]
            /\ UNCHANGED <<files, now, saveSeq>>
    /\ UNCHANGED <<linesLeft, scope, writerVars, history>>

\* aiter_lines() is exhausted: the loop and the try block end.
StreamEnd(r) ==
    /\ rq[r].pc = "stream_read"
    /\ rq' = [rq EXCEPT ![r] =
                 Finally([@ EXCEPT !.log = Append(@, [op |-> "stream_end"])])]
    /\ UNCHANGED <<files, now, linesLeft, scope, saveSeq, writerVars,
                  history>>

\* aiter_lines() raises: the connection dropped.
StreamDrop(r) ==
    /\ rq[r].pc = "stream_read"
    /\ rq' = [rq EXCEPT ![r] = Raise(@, NetworkError)]
    /\ UNCHANGED <<files, now, linesLeft, scope, saveSeq, writerVars,
                  history>>

\* The caller takes the error event; the generator resumes into finally.
ErrorResume(r) ==
    /\ rq[r].pc = "error_yielded"
    /\ rq' = [rq EXCEPT ![r] = Finally(@)]
    /\ UNCHANGED <<files, now, linesLeft, scope, saveSeq, writerVars,
                  history>>

\* The caller abandons the outbound stream while the generator is suspended.
Suspended ==
    {"probe_wait", "status_yielded", "search_wait", "stream_wait",
     "stream_read", "chunk_yielded", "error_yielded"}
OnCancel(s) ==
    Raise([s EXCEPT !.log = Append(@, [op |-> "cancel"])], CancelledError)
Cancel(r) ==
    /\ rq[r].pc \in Suspended
    /\ rq' = [rq EXCEPT ![r] = OnCancel(@)]
    /\ UNCHANGED <<files, now, linesLeft, scope, saveSeq, writerVars,
                  history>>

\* ------------------------------------------------------- writer processes
\* save_conversation step by step, as a process of its own runs it: other
\* processes run, read the path or crash between any two steps.
IdleWriter ==
    [pc |-> "idle", path |-> PathOf("c1"), tmp |-> <<"tmp", "w1">>,
     rest |-> << >>]

\* Conversations the writers are given to save.
SaveInputs == {Conversation(c, 0, <<Message("user", <<"q1">>)>>) : c \in Cids}

InitWriters ==
    /\ wr = [w \in Writers |-> IdleWriter]
    /\ savesLeft = MaxSaves
    /\ seen = [id |-> "c1", file |-> files[PathOf("c1")]]
    /\ docs = {}

\* Lines 133-134 and 56: the conversation is stamped, the temporary file is
\* created.
SaveStart(w) ==
    /\ wr[w].pc = "idle"
    /\ savesLeft > 0
    /\ savesLeft' = savesLeft - 1
    /\ \E conv \in SaveInputs :
         LET path == PathOf(conv.id)
             tmp == NamedTemporaryFile(w, path)
             text == json_dump(Stamped(conv, now))
         IN /\ files' = CreateTmp(files, tmp)
            /\ wr' = [wr EXCEPT ![w] = [pc |-> "dumping", path |-> path,
                                        tmp |-> tmp, rest |-> text]]
            /\ docs' = docs \cup {text}
    /\ now' = now + 1
    /\ UNCHANGED <<reqVars, seen, history>>

\* Line 57: json.dump writes the next piece of the document.
DumpWrite(w) ==
    /\ wr[w].pc = "dumping"
    /\ wr[w].rest # << >>
    /\ files' = WriteToken(files, wr[w].tmp, Head(wr[w].rest))
    /\ wr' = [wr EXCEPT ![w].rest = Tail(@)]
    /\ UNCHANGED <<now, reqVars, savesLeft, seen, docs,
                 history>>

\* Lines 58-59: the file is closed and moved onto the path.
MoveTmp(w) ==
    /\ wr[w].pc = "dumping"
    /\ wr[w].rest = << >>
    /\ files' = Move(files, wr[w].tmp, wr[w].path)
    /\ wr' = [wr EXCEPT ![w].pc = "idle"]
    /\ UNCHANGED <<now, reqVars, savesLeft, seen, docs,
                 history>>

\* The process dies in the middle of a save; what it wrote stays on disk.
Crash(w) ==
    /\ wr[w].pc = "dumping"
    /\ wr' = [wr EXCEPT ![w].pc = "crashed"]
    /\ UNCHANGED <<files, now, reqVars, savesLeft, seen, docs,
                 history>>

\* Some process reads the file of a conversation (path.read_text()).
ReadPath(c) ==
    /\ seen' = [id |-> c, file |-> files[PathOf(c)]]
    /\ UNCHANGED <<files, now, reqVars, wr, savesLeft, docs,
                 history>>

Init ==
    /\ \E f1 \in InitialFiles("c1") :
         files = [p \in Paths |-> IF p = PathOf("c1") THEN f1 ELSE NoFile]
    /\ now = 1
    /\ rq = [r \in Requests |-> IdleRequest]
    /\ linesLeft = MaxLines
    /\ scope \in Scopes
    /\ saveSeq = << >>
    /\ InitWriters
    /\ history = << >>

Next ==
    \E r \in Requests :
        \/ ChatEndpoint(r)
        \/ GenStart(r)
        \/ ProbeReturn(r)
        \/ StatusResume(r)
        \/ SearchReturn(r)
        \/ StreamOpen(r)
        \/ StreamLine(r)
        \/ ChunkResume(r)
        \/ StreamEnd(r)
        \/ StreamDrop(r)
        \/ ErrorResume(r)
        \/ Cancel(r)

Spec == Init /\ [][Next]_vars

\* The store alone: writer processes and readers, no chat request.
InitStore == Init /\ scope = OneRequest
NextStore ==
    \/ \E w \in Writers :
          \/ SaveStart(w)
          \/ DumpWrite(w)
          \/ MoveTmp(w)
          \/ Crash(w)
    \/ \E c \in Cids : ReadPath(c)

SpecStore == InitStore /\ [][NextStore]_vars

\* ------------------------------------------------------- the history listing
\* Text by the character, so that a slice of it can be taken.
Alphabet == <<"a", "b", "c", "d", "e", "f", "g", "h", "i", "j">>
TextOf(n) == [i \in 1..n |-> Alphabet[((i - 1) % Len(Alphabet)) + 1]]

\* The default of next(...): "New Conversation".
NewConversation ==
    <<"N", "e", "w", " ", "C", "o", "n", "v", "e", "r", "s", "a", "t", "i",
      "o", "n">>
\* "..."
Ellipsis == <<".", ".", ".">>
\* The slice bound of first_user[:40].
TitleLen == 40

\* text[:n]
Slice(text, n) == SubSeq(text, 1, IF Len(text) < n THEN Len(text) ELSE n)

\* next((m["content"] for m in data["messages"] if m["role"] == "user"),
\*      "New Conversation")
RECURSIVE first_user(_)
first_user(messages) ==
    IF messages = << >> THEN NewConversation
    ELSE IF Head(messages).role = "user" THEN Head(messages).content
    ELSE first_user(Tail(messages))

\* The entry chats.append(...) adds for one parsed file.
Summary(data) ==
    [id |-> data.id, updatedAt |-> data.updatedAt,
     title |-> Slice(first_user(data.messages), TitleLen) \o Ellipsis]

\* The loop over CHATS_DIR.glob("*.json") in the order the directory gives
\* the files; a file that does not parse is skipped.
RECURSIVE Chats(_, _)
Chats(fs, order) ==
    IF order = << >> THEN << >>
    ELSE LET f == fs[PathOf(Head(order))] IN
         (IF f.exists /\ Parses(f.text)
          THEN <<Summary(Parse(f.text))>> ELSE << >>)
         \o Chats(fs, Tail(order))

\* sorted(chats, key=lambda x: x["updatedAt"], reverse=True): stable, so
\* entries of equal key keep the order they were appended in.
RECURSIVE InsertDesc(_, _)
InsertDesc(x, sorted) ==
    IF sorted = << >> THEN <<x>>
    ELSE IF Head(sorted).updatedAt >= x.updatedAt
         THEN <<Head(sorted)>> \o InsertDesc(x, Tail(sorted))
         ELSE <<x>> \o sorted

RECURSIVE SortedDesc(_)
SortedDesc(chats) ==
    IF chats = << >> THEN << >>
    ELSE InsertDesc(chats[Len(chats)],
                    SortedDesc(SubSeq(chats, 1, Len(chats) - 1)))

\* def get_history()
get_history(fs, order) == SortedDesc(Chats(fs, order))

\* The orders in which glob may give the files of the directory.
GlobOrders == {<<"c1", "c2">>, <<"c2", "c1">>}

\* GET /api/history
GetHistory ==
    /\ \E order \in GlobOrders : history' = get_history(files, order)
    /\ UNCHANGED <<files, now, reqVars, writerVars>>

\* What the chats directory may hold when the listing is asked for: files of
\* this server's saves and files put there by other means.
HistoryTexts == {TextOf(ShortLen), TextOf(TitleLen), TextOf(LongLen)}
HistoryMessages ==
    {Message(role, text) : role \in {"user", "assistant"},
                           text \in HistoryTexts}
HistoryMessageLists ==
    {<< >>} \cup {<<m>> : m \in HistoryMessages}
    \cup {<<m1, m2>> : m1 \in HistoryMessages, m2 \in HistoryMessages}
HistoryFiles(cid) ==
    {NoFile, File(TruncatedText(cid))}
    \cup {File(json_dump(Conversation(cid, t, ms))) :
             t \in 1..2, ms \in HistoryMessageLists}

\* The listing alone, over a chats directory of any content.
InitHistory ==
    /\ \E f1 \in HistoryFiles("c1"), f2 \in HistoryFiles("c2") :
         files = [p \in Paths |->
                     IF p = PathOf("c1") THEN f1
                     ELSE IF p = PathOf("c2") THEN f2 ELSE NoFile]
    /\ now = 1
    /\ rq = [r \in Requests |-> IdleRequest]
    /\ linesLeft = MaxLines
    /\ scope = OneRequest
    /\ saveSeq = << >>
    /\ InitWriters
    /\ history = << >>

NextHistory == GetHistory

SpecHistory == InitHistory /\ [][NextHistory]_vars
\* ------------------------------------------------- reading a request's log
LogOf(r) == rq[r].log
At(r, op) == {i \in 1..Len(LogOf(r)) : LogOf(r)[i].op = op}
Emitted(r, type) ==
    {i \in At(r, "emit") : LogOf(r)[i].ev.type = type}
Failures(r) ==
    {i \in At(r, "raise") : LogOf(r)[i].exc.cls = "Exception"}

\* The request's outbound stream so far.
RECURSIVE EventsIn(_)
EventsIn(log) ==
    IF log = << >> THEN << >>
    ELSE (IF Head(log).op = "emit" THEN <<Head(log).ev>> ELSE << >>)
         \o EventsIn(Tail(log))

\* The contents of the Chunk events of a log, concatenated in order.
RECURSIVE ChunkConcat(_)
ChunkConcat(log) ==
    IF log = << >> THEN << >>
    ELSE (IF Head(log).op = "emit" /\ Head(log).ev.type = "chunk"
          THEN Head(log).ev.content ELSE << >>)
         \o ChunkConcat(Tail(log))

\* The probe and the stream ran without failure to the end of the stream,
\* and the done marker was delivered.
Succeeded(r) ==
    /\ rq[r].pc = "closed"
    /\ At(r, "stream_end") # {}
    /\ At(r, "done") # {}

\* The streaming call failed: an exception after the call was issued.
StreamFailures(r) ==
    {i \in Failures(r) : \E j \in At(r, "stream") : j < i}
\* The probe failed: an exception before any streaming call.
ProbeFailures(r) == Failures(r) \ StreamFailures(r)

\* No request other than r has saved since r loaded its conversation.
NoOtherSaveSince(r) ==
    \A k \in (rq[r].savesAtLoad + 1)..Len(saveSeq) : saveSeq[k].by = r

\* The stored file of r's conversation is what it was when r loaded it.
StoreAsLoaded(r) ==
    files[PathOf(rq[r].req.conversationId)] = rq[r].fileAtLoad

\* The messages a stored file holds: none when it is missing or unparseable.
StoredMessages(f) ==
    IF f.exists /\ Parses(f.text) THEN Parse(f.text).messages ELSE << >>

\* -------------------------------------------------------------------- C1
\* C1 (as claimed): a request whose probe and stream complete without failure
\* and whose stream delivers the done marker calls save_conversation exactly
\* once, after every Chunk event, and persists the concatenation of all of
\* its chunks as the assistant message.
C1_SinglePersistencePoint ==
    \A r \in Requests :
        Succeeded(r) =>
            /\ Cardinality(At(r, "save")) = 1
            /\ \A i \in At(r, "save") :
                  /\ \A j \in Emitted(r, "chunk") : j < i
                  /\ LET ms == LogOf(r)[i].conv.messages IN
                     ms[Len(ms)] = Message("assistant", ChunkConcat(LogOf(r)))

\* -------------------------------------------------------------------- C2
\* C2 (as claimed): when the streaming call fails after any number of chunks,
\* the request never calls save_conversation and the stored file is what it
\* was before the request.
C2_FailureIsolation ==
    \A r \in Requests :
        StreamFailures(r) # {} =>
            /\ At(r, "save") = {}
            /\ NoOtherSaveSince(r) => StoreAsLoaded(r)

\* -------------------------------------------------------------------- C3
\* The context the spec describes: with the memory flag, the stored history
\* followed by the new user turn; without it, the new user turn alone.
ExpectedContext(r) ==
    LET user == Message("user", rq[r].req.message) IN
    IF rq[r].req.memoryOn
    THEN StoredMessages(rq[r].fileAtLoad) \o <<user>>
    ELSE <<user>>

\* C3 (as claimed): the probe call and the streaming call each carry exactly
\* the new user turn when memoryOn is false, and the stored history followed
\* by the new user turn when it is true.
C3_ContextInBothCalls ==
    \A r \in Requests :
        \A i \in At(r, "probe") \cup At(r, "stream") :
            LogOf(r)[i].messages = ExpectedContext(r)

\* C3 (amended): the probe call carries that context; the streaming call
\* carries it too when no search was made, and on the tool path carries it
\* followed by the probe's tool-call message and one tool-role message.
C3_ContextSelection ==
    \A r \in Requests :
        /\ \A i \in At(r, "probe") :
              LogOf(r)[i].messages = ExpectedContext(r)
        /\ \A i \in At(r, "stream") :
              LET ms == LogOf(r)[i].messages
                  n == Len(ExpectedContext(r))
              IN IF At(r, "search") = {}
                 THEN ms = ExpectedContext(r)
                 ELSE /\ Len(ms) = n + 2
                      /\ SubSeq(ms, 1, n) = ExpectedContext(r)
                      /\ ms[n + 1] = rq[r].init_json.message
                      /\ ms[n + 2].role = "tool"

\* A request without memory, on a stored history, that took the tool path and
\* issued its streaming call.
C3_Witness ==
    \E r \in Requests :
        /\ At(r, "stream") # {}
        /\ At(r, "search") # {}
        /\ ~rq[r].req.memoryOn
        /\ Len(StoredMessages(rq[r].fileAtLoad)) = 2

\* -------------------------------------------------------------------- C4
\* C4 (as claimed): with webSearch false the probe gets no tools and, whatever
\* the probe answers, no Status event is emitted, no search is made and the
\* streaming call carries no tool-call or tool-role message.
C4_ToolGating ==
    \A r \in Requests :
        (rq[r].pc # "idle" /\ ~rq[r].req.webSearch) =>
            /\ \A i \in At(r, "probe") : LogOf(r)[i].tools = << >>
            /\ Emitted(r, "status") = {}
            /\ At(r, "search") = {}
            /\ \A i \in At(r, "stream") :
                  \A k \in 1..Len(LogOf(r)[i].messages) :
                      LET m == LogOf(r)[i].messages[k] IN
                      m.role # "tool" /\ "tool_calls" \notin DOMAIN m

\* -------------------------------------------------------------------- C5
\* A file a reader may find at the path of conversation c: the file that
\* was there at the start, or the whole document of a save of c.
WholeFor(c, f) ==
    \/ f \in InitialFiles(c)
    \/ /\ f.exists
       /\ f.text \in docs
       /\ Parses(f.text)
       /\ Parse(f.text).id = c

\* C5: whatever the interleaving of saves (two at once on one id included),
\* reads and crashes, the path of a conversation holds, and every read of it
\* returns, the initial file or the whole document of some save, never a
\* part of one; a save in progress writes to a file that is not the path.
C5_AtomicReplace ==
    /\ \A c \in Cids : WholeFor(c, files[PathOf(c)])
    /\ WholeFor(seen.id, seen.file)
    /\ \A w \in Writers :
          wr[w].pc = "dumping" => wr[w].tmp \notin {PathOf(c) : c \in Cids}

\* Two saves of one id at once, one of them crashed half-way and the other
\* half-way through its document, while a reader has read the document an
\* earlier save installed.
C5_Witness ==
    \E a \in Writers, b \in Writers, c \in Cids :
        /\ a # b
        /\ wr[a].pc = "crashed"
        /\ wr[b].pc = "dumping"
        /\ wr[a].path = PathOf(c)
        /\ wr[b].path = PathOf(c)
        /\ files[wr[a].tmp].exists /\ ~Parses(files[wr[a].tmp].text)
        /\ files[wr[b].tmp].exists /\ ~Parses(files[wr[b].tmp].text)
        /\ Len(files[wr[b].tmp].text) > 0
        /\ seen.id = c /\ seen.file.exists /\ seen.file.text \in docs

\* -------------------------------------------------------------------- C6
\* C6: a request emits at most one Error event, nothing is emitted after it,
\* and every failure of the probe or of the stream is followed at once by
\* that one Error event (the exception is caught, it does not escape).
C6_SingleTerminalError ==
    \A r \in Requests :
        /\ Cardinality(Emitted(r, "error")) <= 1
        /\ \A i \in Emitted(r, "error") : \A j \in At(r, "emit") : j <= i
        /\ \A i \in Failures(r) :
              /\ i + 1 \in Emitted(r, "error")
              /\ rq[r].pc \in {"error_yielded", "closed"}

\* A stream that failed after a chunk, reported and closed.
C6_Witness ==
    \E r \in Requests :
        /\ rq[r].pc = "closed"
        /\ StreamFailures(r) # {}
        /\ Emitted(r, "chunk") # {}
        /\ Emitted(r, "error") # {}

\* -------------------------------------------------------------------- C7
\* The probe failed: the call raised, or its response could not be used.
ProbeFailed(r) == At(r, "probe_failed") # {} \/ ProbeFailures(r) # {}

\* C7: when the probe fails the outbound stream is exactly one Error event,
\* and there is no search, no streaming call and no save.
C7_ProbeFailure ==
    \A r \in Requests :
        ProbeFailed(r) =>
            /\ Len(EventsIn(LogOf(r))) = 1
            /\ EventsIn(LogOf(r))[1].type = "error"
            /\ At(r, "search") = {}
            /\ At(r, "stream") = {}
            /\ At(r, "save") = {}
            /\ \A k \in 1..Len(saveSeq) : saveSeq[k].by # r

\* A request whose probe call raised, closed.
C7_Witness ==
    \E r \in Requests :
        At(r, "probe_failed") # {} /\ rq[r].pc = "closed"

\* -------------------------------------------------------------------- C8
\* C8: when the search returns absence, the next thing the request does is
\* the streaming call, with the context, the probe's tool-call message and a
\* tool message "Search failed."; an Error event can only come from a later
\* failure of the stream.
C8_SearchAbsence ==
    \A r \in Requests :
        \A i \in At(r, "search_return") :
            LogOf(r)[i].result.none =>
                /\ i + 1 \in At(r, "stream")
                /\ LogOf(r)[i + 1].messages =
                      rq[r].context_data
                      \o <<rq[r].init_json.message,
                           [role |-> "tool", content |-> <<"Search failed.">>]>>
                /\ \A e \in Emitted(r, "error") :
                      e > i + 1 /\ e - 1 \in StreamFailures(r)

\* A request whose search found nothing and whose stream then ran to its end.
C8_Witness ==
    \E r \in Requests :
        /\ \E i \in At(r, "search_return") : LogOf(r)[i].result.none
        /\ At(r, "stream_end") # {}
        /\ Emitted(r, "chunk") # {}

\* -------------------------------------------------------------------- C9
\* The conversation request r passed to its latest save_conversation call.
LastSavedBy(r) ==
    LogOf(r)[CHOOSE i \in At(r, "save") : \A j \in At(r, "save") : j <= i].conv

\* Two requests on one id that both loaded it before any save and both ran
\* to the end of their stream with a done marker; b is the one that saved last.
Raced(a, b) ==
    /\ a # b
    /\ Succeeded(a)
    /\ Succeeded(b)
    /\ rq[a].req.conversationId = rq[b].req.conversationId
    /\ rq[a].savesAtLoad = 0
    /\ rq[b].savesAtLoad = 0
    /\ saveSeq[Len(saveSeq)].by = b

\* C9: after such a race the stored conversation is exactly the one the last
\* saver wrote: what it loaded, its own user turn and its own assistant
\* turns; the user turn of the other request is not in it.
C9_LastWriterWins ==
    \A a \in Requests, b \in Requests :
        Raced(a, b) =>
            LET f == files[PathOf(rq[b].req.conversationId)]
                ms == StoredMessages(f)
            IN /\ f = File(json_dump(LastSavedBy(b)))
               /\ Len(ms) = Len(StoredMessages(rq[b].fileAtLoad)) + 1
                            + Cardinality(At(b, "done"))
               /\ \A k \in 1..Len(ms) :
                     ms[k] # Message("user", rq[a].req.message)

\* Such a race, on a conversation that had a stored history.
C9_Witness ==
    \E a \in Requests, b \in Requests :
        Raced(a, b) /\ Len(StoredMessages(rq[b].fileAtLoad)) = 2

\* ------------------------------------------------------------------- C10
\* C10: a request abandoned before it processed a done marker never saves,
\* emits nothing after it was abandoned, and leaves the stored file as it was.
C10_Cancellation ==
    \A r \in Requests :
        \A i \in At(r, "cancel") :
            (\A j \in At(r, "done") : j > i) =>
                /\ At(r, "save") = {}
                /\ \A k \in 1..Len(saveSeq) : saveSeq[k].by # r
                /\ \A j \in At(r, "emit") : j < i
                /\ rq[r].pc = "closed"
                /\ NoOtherSaveSince(r) => StoreAsLoaded(r)

\* A request abandoned at the Chunk event of the line that carries done.
C10_Witness ==
    \E r \in Requests :
        /\ At(r, "cancel") # {}
        /\ Emitted(r, "chunk") # {}
        /\ rq[r].data.done
        /\ At(r, "done") = {}

\* ------------------------------------------------------------------- C11
\* C11: a request whose generator started has its HTTP client open for as
\* long as it runs; when it has ended, by whatever path, the client has been
\* closed exactly once, and the close is the last thing the request did, so
\* no call is made on the closed client.
C11_ClientClosedOnce ==
    \A r \in Requests :
        LET closes == At(r, "close") IN
        /\ rq[r].client = "none" <=> At(r, "probe") = {}
        /\ rq[r].client = "open" <=> rq[r].pc \in Suspended
        /\ rq[r].client = "closed" <=> closes # {}
        /\ rq[r].pc = "closed" <=> closes # {}
        /\ Cardinality(closes) <= 1
        /\ \A i \in closes : i = Len(LogOf(r))

\* A request abandoned on the tool path, after the search, and ended.
C11_Witness ==
    \E r \in Requests :
        /\ At(r, "cancel") # {}
        /\ At(r, "search_return") # {}
        /\ At(r, "stream") # {}
        /\ rq[r].pc = "closed"
        /\ rq[r].client = "closed"

\* ------------------------------------------------------------------- C12
\* The saves of conversation c so far, as positions of saveSeq.
SavesOf(c) == {k \in 1..Len(saveSeq) : saveSeq[k].id = c}

\* The conversation handed to the latest save of c.
LastSaved(c) ==
    LastSavedBy(saveSeq[CHOOSE k \in SavesOf(c) :
                            \A j \in SavesOf(c) : j <= k].by)

\* C12: as long as no other save of the id follows, loading a saved
\* conversation gives the id it was saved under and the messages that were
\* saved, as many and in the same order.
C12_SaveLoadRoundTrip ==
    \A c \in Cids :
        SavesOf(c) # {} =>
            LET got == load_conversation(files, c, now) IN
            /\ got.id = c
            /\ got.id = LastSaved(c).id
            /\ Len(got.messages) = Len(LastSaved(c).messages)
            /\ \A i \in 1..Len(got.messages) :
                  got.messages[i] = LastSaved(c).messages[i]

\* A conversation with a stored history was saved with a new turn and loads
\* back with its four messages.
C12_Witness ==
    \E r \in Requests :
        /\ At(r, "save") # {}
        /\ saveSeq[Len(saveSeq)].by = r
        /\ Len(rq[r].loaded) = 2
        /\ load_conversation(files, rq[r].req.conversationId, now).messages
              = LastSavedBy(r).messages
        /\ Len(LastSavedBy(r).messages) >= 4

\* ------------------------------------------------------------------- C13
\* The stored file of c is missing or does not parse as a Conversation.
Unreadable(f) == ~f.exists \/ ~Parses(f.text)

\* A chats directory that has never seen any id.
EmptyStore == [p \in Paths |-> NoFile]

StoredFor(entry) == Parse(files[PathOf(entry.id)].text)

\* The positions of the user messages of a message list.
UserTurns(ms) == {i \in 1..Len(ms) : ms[i].role = "user"}
FirstUserTurn(ms) ==
    ms[CHOOSE i \in UserTurns(ms) : \A j \in UserTurns(ms) : i <= j]

\* The first n characters of a text: all of it when it has fewer.
FirstChars(text, n) ==
    [i \in 1..(IF Len(text) < n THEN Len(text) ELSE n) |-> text[i]]

\* C14 (as claimed): in the listing, the title of a conversation that has a
\* user message is the first 40 characters of its first user message and
\* then "...", and the title of a conversation without user message is
\* "New Conversation".
C14_Titles ==
    \A i \in 1..Len(history) :
        LET ms == StoredFor(history[i]).messages IN
        IF UserTurns(ms) # {}
        THEN history[i].title
                = FirstChars(FirstUserTurn(ms).content, 40) \o <<".", ".", ".">>
        ELSE history[i].title = NewConversation

\* ------------------------------------------------------------------- C15
\* C15 (as claimed): once a request has called save_conversation it emits no
\* further event and does not call save_conversation again, whatever the
\* stream delivers after the line that carried done.
C15_SaveIsTerminal ==
    \A r \in Requests :
        \A i \in At(r, "save") :
            /\ \A j \in At(r, "emit") : j < i
            /\ \A j \in At(r, "save") : j = i

\* ------------------------------------------------------------------- C16
\* C16 (as claimed): a request that was not abandoned by the caller ends
\* either persisted (it saved and emitted no Error event) or errored (it
\* emitted exactly one Error event and did not save); it never ends with
\* neither a save nor an Error event.
C16_PersistedOrErrored ==
    \A r \in Requests :
        rq[r].pc = "closed" /\ At(r, "cancel") = {} =>
            \/ At(r, "save") # {} /\ Emitted(r, "error") = {}
            \/ Cardinality(Emitted(r, "error")) = 1 /\ At(r, "save") = {}

\* ------------------------------------------------------------------- C17
\* The body the probe returned, once it has returned.
ProbeReturned(r) == At(r, "probe_return") # {}
ProbeJson(r) == LogOf(r)[CHOOSE i \in At(r, "probe_return") : TRUE].json

\* The probe response carries tool calls; its first entry.
HasToolCalls(r) ==
    /\ ProbeReturned(r)
    /\ "message" \in DOMAIN ProbeJson(r)
    /\ "tool_calls" \in DOMAIN ProbeJson(r).message
    /\ ProbeJson(r).message.tool_calls # << >>
FirstEntry(r) == ProbeJson(r).message.tool_calls[1]
NamesWebSearch(r) ==
    HasToolCalls(r) /\ FirstEntry(r).function.name = "web_search"
NamesOtherTool(r) ==
    HasToolCalls(r) /\ FirstEntry(r).function.name # "web_search"
CarriesQuery(r) == "query" \in DOMAIN FirstEntry(r).function.arguments

\* C17 (as claimed): the search is invoked at most once; a request that ran
\* to its end invoked the search, and emitted a Status event, exactly if the
\* first tool-call entry of its probe response names web_search; if that
\* entry names another tool the streaming call got the unaugmented context.
C17_FirstToolCallOnly ==
    \A r \in Requests :
        /\ Cardinality(At(r, "search")) <= 1
        /\ rq[r].pc = "closed" /\ At(r, "cancel") = {} /\ ProbeReturned(r) =>
              /\ At(r, "search") # {} <=> NamesWebSearch(r)
              /\ Emitted(r, "status") # {} <=> NamesWebSearch(r)
              /\ NamesOtherTool(r) =>
                    \E i \in At(r, "stream") :
                        LogOf(r)[i].messages = rq[r].context_data

\* C17 (amended): at most one search and one Status event per request, and
\* only the first tool-call entry counts.  The Status event is emitted
\* exactly if the first entry names web_search and carries a query; the
\* search, with that query, is what the generator does next when resumed
\* after the Status event (a caller that abandons the stream there gets no
\* search).  A first web_search entry without query ends the request with
\* an Error event, without search or streaming call.  A first entry naming
\* another tool leads straight to the streaming call, with the unaugmented
\* context, whatever the further entries are.
C17_FirstWellFormedToolCall ==
    \A r \in Requests :
        /\ Cardinality(At(r, "search")) <= 1
        /\ Cardinality(Emitted(r, "status")) <= 1
        /\ Emitted(r, "status") # {} <=> (NamesWebSearch(r) /\ CarriesQuery(r))
        /\ \A i \in Emitted(r, "status") :
              i < Len(LogOf(r)) => LogOf(r)[i + 1].op \in {"search", "cancel"}
        /\ \A i \in At(r, "search") :
              /\ i - 1 \in Emitted(r, "status")
              /\ LogOf(r)[i].query = FirstEntry(r).function.arguments.query
        /\ NamesWebSearch(r) /\ ~CarriesQuery(r) =>
              /\ Cardinality(Emitted(r, "error")) = 1
              /\ At(r, "search") = {}
              /\ At(r, "stream") = {}
        /\ NamesOtherTool(r) =>
              /\ At(r, "search") = {}
              /\ \A i \in At(r, "probe_return") :
                    /\ LogOf(r)[i + 1].op = "stream"
                    /\ LogOf(r)[i + 1].messages = rq[r].context_data

\* A probe response whose first entry names web_search and whose second
\* names another tool: the search ran, once, and the streaming call followed.
C17_Witness ==
    \E r \in Requests :
        /\ HasToolCalls(r)
        /\ ProbeJson(r).message.tool_calls = <<WebSearchCall, OtherCall>>
        /\ At(r, "search_return") # {}
        /\ At(r, "stream") # {}

\* A probe response whose first entry names another tool and whose second
\* names web_search, at the streaming call.
C17_WitnessOtherFirst ==
    \E r \in Requests :
        /\ HasToolCalls(r)
        /\ ProbeJson(r).message.tool_calls = <<OtherCall, WebSearchCall>>
        /\ At(r, "stream") # {}

\* ------------------------------------------------------------------- C18
\* The tool-role message for a search result: the result under its heading,
\* or the failure literal when the search gave nothing.
ToolMessageFor(result) ==
    [role |-> "tool",
     content |-> IF result.none \/ result.val = << >>
                 THEN <<"Search failed.">>
                 ELSE <<"Results:\n">> \o result.val]

\* C18: on the tool path there is one Status event; the search is invoked
\* after it, the streaming call is issued after the search has returned, and
\* every Chunk event comes after the Status event and the streaming call.
\* The streaming call's messages are the probe context, then the probe's
\* tool-call message, then one tool-role message for the search result.
C18_ToolPathOrder ==
    \A r \in Requests :
        Emitted(r, "status") # {} =>
            /\ Cardinality(Emitted(r, "status")) = 1
            /\ \A i \in Emitted(r, "status") :
                  /\ \A j \in At(r, "search") : i < j
                  /\ \A c \in Emitted(r, "chunk") : i < c
            /\ \A k \in At(r, "stream") :
                  /\ \A c \in Emitted(r, "chunk") : k < c
                  /\ \E j \in At(r, "search"), m \in At(r, "search_return") :
                        /\ j < m
                        /\ m < k
                        /\ LogOf(r)[k].messages
                              = rq[r].context_data
                                \o <<ProbeJson(r).message,
                                     ToolMessageFor(LogOf(r)[m].result)>>

\* A request on the tool path whose search found results and whose stream
\* has delivered a chunk.
C18_Witness ==
    \E r \in Requests :
        /\ Emitted(r, "status") # {}
        /\ \E m \in At(r, "search_return") : ~LogOf(r)[m].result.none
        /\ Emitted(r, "chunk") # {}
        /\ Len(rq[r].context_data) > 1

\* ------------------------------------------------------------------- C19
\* C19: a request whose generator runs issues exactly one probe call, not
\* streaming, and at most one streaming call; the streaming call comes after
\* the probe has returned without raising and, on the tool path, after the
\* search has returned; it carries no tool definitions.  After a failure no
\* call is made again.
C19_OneProbeOneStream ==
    \A r \in Requests :
        /\ rq[r].pc \notin {"idle", "gen_created"} =>
              Cardinality(At(r, "probe")) = 1
        /\ \A i \in At(r, "probe") : ~LogOf(r)[i].stream
        /\ Cardinality(At(r, "stream")) <= 1
        /\ \A k \in At(r, "stream") :
              /\ LogOf(r)[k].stream
              /\ "tools" \notin DOMAIN LogOf(r)[k]
              /\ At(r, "probe_failed") = {}
              /\ \E i \in At(r, "probe"), j \in At(r, "probe_return") :
                    i < j /\ j < k
              /\ \A s \in At(r, "search") :
                    \E m \in At(r, "search_return") : s < m /\ m < k
        /\ \A f \in Failures(r) :
              \A k \in At(r, "probe") \cup At(r, "stream") : k < f

\* A request with web search on, on the tool path, whose streaming call was
\* issued and then failed.
C19_Witness ==
    \E r \in Requests :
        /\ rq[r].tools # << >>
        /\ At(r, "search_return") # {}
        /\ At(r, "stream") # {}
        /\ StreamFailures(r) # {}
        /\ rq[r].pc = "closed"

\* ------------------------------------------------------------------- C20
\* C20 (as claimed): every save of a request persists the messages the
\* request loaded, then its user message, then one assistant message, and
\* nothing else, whatever memoryOn and webSearch are and whether or not the
\* tool path was taken.
C20_PersistedMessages ==
    \A r \in Requests :
        \A i \in At(r, "save") :
            LET ms == LogOf(r)[i].conv.messages
                n == Len(rq[r].loaded)
            IN /\ Len(ms) = n + 2
               /\ SubSeq(ms, 1, n) = rq[r].loaded
               /\ ms[n + 1] = Message("user", rq[r].req.message)
               /\ ms[n + 2].role = "assistant"
               /\ StoredMessages(rq[r].fileAtLoad) = rq[r].loaded

====
